---------------------------- MODULE Spec2Model ----------------------------
(***************************************************************************)
(* Currency-Converter: the rate cache / fetch pipeline of                  *)
(* currency_converter/rates.py (get_rates and what it calls) and the       *)
(* shared snapshot slot of currency_converter/app.py (_rates, guarded by   *)
(* _rates_lock) with the threads that touch it: the startup preload        *)
(* worker, the GET /api/convert handlers, the POST /api/refresh handlers   *)
(* and their background workers.                                           *)
(*                                                                         *)
(* The specifications share the same steps of get_rates:                   *)
(*   Spec     the web application (main, then concurrent requests);        *)
(*   SpecFair Spec under fair scheduling of the threads;                   *)
(*   SpecLib  get_rates called directly, one call after the other, as the  *)
(*            tests do (tests/test_yahoo_rates.py);                        *)
(*   SpecLive Spec under fair scheduling with a fair lock;                 *)
(*   SpecReliable  Spec on a disk whose writes all succeed;                *)
(*   SpecAnyFile   SpecLib started on any cache file, one that parses yet  *)
(*            is no saved record included.                                 *)
(* The pure functions are checked each in a specification of its own:      *)
(*   SpecConvert  Rates.convert on a snapshot, there and back;             *)
(*   SpecFetch    fetch_latest_rates step by step: the Yahoo loop pair by  *)
(*                pair, the coverage test, the two fallbacks, and the      *)
(*                table read back from the cache file;                     *)
(*   SpecHandler  one GET /api/convert request, from its amount string to  *)
(*                its answer (Decimal parsing, format_decimal);            *)
(*   SpecHistory  one GET /api/historical request (get_historical_data).   *)
(***************************************************************************)
EXTENDS Integers, Sequences, FiniteSets, TLC

\* rates.py:16  CACHE_TTL_SECONDS = 60 * 60
CACHE_TTL_SECONDS == 3600

\* Bounds of the model.
MaxNow == 3601          \* the clock stops advancing here
MaxThreads == 2         \* request handlers and refresh workers alive at once

(***************************************************************************)
(* Values                                                                  *)
(***************************************************************************)
\* Optional[...]: None, or a one-element tuple holding the value.
None == <<>>
Some(x) == <<x>>

\* The dataclass Rates (rates.py:34-38).  The rate table is kept by the
\* precision its Decimals carry: "dec28" holds a quotient computed at the
\* 28-digit context precision (1.0 / reverse_rate), "dec17" holds only
\* Decimals built from the shortest repr of a float, "f64" is the table of
\* plain floats written to the cache file.
Rates(b, r, ts) == [base |-> b, rates |-> r, timestamp |-> ts]

\* float(v) of save_cached_rates (rates.py:207): every Decimal becomes a float.
ToFloat(r) == "f64"

\* Decimal(str(v)) of load_cached_rates (rates.py:197): a float becomes the
\* Decimal of its shortest repr.
FromFloat(r) == IF r = "f64" THEN "dec17" ELSE r

\* The run starts one TTL after the epoch, so that a record stored earlier may
\* be fresh or stale, and the clock advances second by second.
StartTime == CACHE_TTL_SECONDS

\* The threads: the preload worker of main, and the threads the server gives
\* to request handlers and refresh workers.
Preload == 0
Threads == 1..MaxThreads
Procs == {Preload} \cup Threads

VARIABLES
    now,          \* int(time.time())
    cache_file,   \* CACHE_FILE on disk: [state, rec]
    _rates,       \* app.py:66, the in-memory snapshot slot: None or Some(Rates)
    _rates_lock,  \* app.py:65, None or Some(proc holding it)
    role,         \* what each thread is: idle, preload, convert, refresh, worker, caller
    pc,           \* where each thread stands
    gr,           \* the locals of each thread's current call of get_rates
    http,         \* the HTTP response sent by the step just taken, None if it sent none
    saw_none,     \* convert handler: what its pre-check `_rates is None` read
    acc,          \* the access to _rates made by the step just taken, None if it made none
    call,         \* SpecLib history: what the caller observes of the current call
    prev,         \* SpecLib history: the previous completed call of get_rates
    cv,           \* SpecConvert: the arguments of Rates.convert and what it gave
    fx,           \* SpecFetch: the rate table built from a provider or the cache file
    rq,           \* SpecHandler: one request to GET /api/convert and its handling
    hs            \* SpecHistory: one request to GET /api/historical and its handling

vars == <<now, cache_file, _rates, _rates_lock, role, pc, gr, http, saw_none, acc, call, prev,
          cv, fx, rq, hs>>

(***************************************************************************)
(* rates.py: the cache file                                                *)
(***************************************************************************)
Missing == [state |-> "missing", rec |-> None]
Corrupt == [state |-> "corrupt", rec |-> None]
Stored(r) == [state |-> "ok", rec |-> Some(r)]

\* A file that parses as a JSON object yet is no saved record: Partial is an
\* object without the three keys ({}), BadStamp one whose timestamp is not a
\* number ({"timestamp": "abc"}, {"timestamp": null}).
Partial == [state |-> "partial", rec |-> None]
BadStamp == [state |-> "badstamp", rec |-> None]

\* raw.get("timestamp", 0) of a BadStamp file (rates.py:199): a value that is
\* no number, written -1 here; no record the program saves holds it.
NotANumber == -1
IsNumber(ts) == ts # NotANumber

\* load_cached_rates (rates.py:191-200): None when the file is missing or
\* json.loads fails, else the record with its rates re-read as Decimals; a
\* key the object lacks takes its default: base "USD", no rates, timestamp 0
\* (rates.py:197-199).  The timestamp is taken as it is, number or not.
load_cached_rates(f) ==
    CASE f.state = "ok" ->
             Some(Rates(f.rec[1].base, FromFloat(f.rec[1].rates), f.rec[1].timestamp))
      [] f.state = "partial" -> Some(Rates("USD", "empty", 0))
      [] f.state = "badstamp" -> Some(Rates("USD", "empty", NotANumber))
      [] OTHER -> None

\* The payload of save_cached_rates (rates.py:205-209).
payload(r) == Rates(r.base, ToFloat(r.rates), r.timestamp)

\* Faulty variant of save_cached_rates: the record never reaches the file.
save_lost(f, r, o) == f

\* write_text of save_cached_rates (rates.py:210-213): the write succeeds, or
\* fails before the file is opened (file untouched), or fails after open("w")
\* truncated it (file left unparseable).  The exception is swallowed.
WriteOutcomes == {"ok", "failed", "truncated"}
save_cached_rates(f, r, o) ==
    CASE o = "ok" -> Stored(payload(r))
      [] o = "failed" -> f
      [] o = "truncated" -> Corrupt

\* Faulty variant of the freshness test: a record aged exactly one TTL is fresh.
FreshInclusive(t, ts) == t - ts <= CACHE_TTL_SECONDS

\* rates.py:221: (int(time.time()) - cached.timestamp) < CACHE_TTL_SECONDS
Fresh(t, ts) == t - ts < CACHE_TTL_SECONDS

(***************************************************************************)
(* rates.py: Decimal arithmetic and Rates.convert                          *)
(***************************************************************************)
\* rates.py:13  getcontext().prec = 28
PREC == 28

Abs(n) == IF n < 0 THEN 0 - n ELSE n
RECURSIVE GCD(_, _)
GCD(a, b) == IF b = 0 THEN a ELSE GCD(b, a % b)

\* A Decimal is kept as the rational n/d it stands for (d > 0, lowest
\* terms) and rnd, the number of results rounded to PREC significant digits
\* on the way to it: with rnd = 0 the Decimal is n/d exactly, otherwise it is
\* n/d up to rnd roundings, each of relative error below 10^-(PREC-1).
Quot(n, d, rnd) ==
    LET g == GCD(Abs(n), Abs(d))
        sg == IF d < 0 THEN 0 - 1 ELSE 1
    IN [n |-> (sg * n) \div g, d |-> Abs(d) \div g, rnd |-> rnd]
Dec(n, d) == Quot(n, d, 0)

\* n/d has a finite decimal expansion iff d has no prime factor but 2 and 5.
RECURSIVE Strip(_, _)
Strip(d, f) == IF d % f = 0 THEN Strip(d \div f, f) ELSE d
Terminates(d) == Strip(Strip(d, 2), 5) = 1

IsZero(a) == a.n = 0
IsOne(a) == a.n = 1 /\ a.d = 1 /\ a.rnd = 0

\* Faulty variant of the division: it multiplies.
TimesForOver(a, b) == Quot(a.n * b.n, a.d * b.d, a.rnd + b.rnd)

\* Decimal.__truediv__ with a non-zero divisor: the quotient is rounded when
\* its expansion does not end, or when the dividend is itself a rounded,
\* PREC-digit value.
DecDiv(a, b) ==
    LET q == Quot(a.n * b.d, a.d * b.n, 0)
        rounds == ~Terminates(q.d) \/ ((a.rnd > 0 \/ b.rnd > 0) /\ ~IsOne(b))
    IN [q EXCEPT !.rnd = a.rnd + b.rnd + (IF rounds THEN 1 ELSE 0)]

\* Faulty variant of the multiplication: it divides.
OverForTimes(a, b) == Quot(a.n * b.d, a.d * b.n, a.rnd + b.rnd)

\* Decimal.__mul__: the product of two short exact values is exact; the
\* product with a rounded, PREC-digit value is rounded again.
DecMul(a, b) ==
    LET q == Quot(a.n * b.n, a.d * b.d, 0)
        rounds == (a.rnd > 0 /\ ~IsOne(b)) \/ (b.rnd > 0 /\ ~IsOne(a))
    IN [q EXCEPT !.rnd = a.rnd + b.rnd + (IF rounds THEN 1 ELSE 0)]

\* The number of decimal digits of k (0 for 0).
RECURSIVE Digits(_)
Digits(k) == IF k = 0 THEN 0 ELSE 1 + Digits(k \div 10)

\* y equals x within a relative error of 10^-digits: the same rational, and
\* the roundings made (fewer than 10^Digits(rnd), each below 10^-(PREC-1))
\* stay within it.
Within(y, x, digits) ==
    /\ y.n * x.d = x.n * y.d
    /\ Digits(y.rnd) + digits <= PREC - 1

\* What Rates.convert gives: a Decimal, or ValueError("Unknown or invalid
\* source currency: <src>") / ("... destination currency: <dst>"), or the
\* exception a Decimal operation raised.
Value(v) == [kind |-> "value", val |-> v]
Raised(what) == [kind |-> "raised", what |-> what]

\* Faulty variants: the message always names the source; only a missing entry
\* is refused; the shortcut for equal codes is missing.
FailureSource(side, code) == [kind |-> "error", side |-> "source", code |-> code]
Failure(side, code) == [kind |-> "error", side |-> side, code |-> code]
OnlyMissing(rate) == rate = None
NeverSame(src, dst) == FALSE

\* rates.py:41  if src == dst
SameCurrency(src, dst) == src = dst

\* rates.py:48, 54  `rate is None or rate == 0`
Unusable(rate) == rate = None \/ IsZero(rate[1])

\* rates.py:50  amount / src_rate: Decimal traps a division by zero.
Divide(a, b) ==
    IF IsZero(b) THEN Raised("DivisionByZero") ELSE Value(DecDiv(a, b))

\* Rates.convert (rates.py:40-56).  S.rates maps a code to None (no entry) or
\* Some(Decimal): self.rates.get(code).
convert(S, amount, src, dst) ==
    IF SameCurrency(src, dst) THEN Value(amount)
    ELSE LET usd_amount ==
                 IF src = S.base THEN Value(amount)
                 ELSE IF Unusable(S.rates[src]) THEN Failure("source", src)
                 ELSE Divide(amount, S.rates[src][1])
         IN IF usd_amount.kind # "value" THEN usd_amount
            ELSE IF dst = S.base THEN usd_amount
            ELSE IF Unusable(S.rates[dst]) THEN Failure("destination", dst)
            ELSE Value(DecMul(usd_amount.val, S.rates[dst][1]))

\* The arguments tried: snapshots over three codes whose entries are missing,
\* zero, negative or positive (3 and 1.2), amounts of either sign and zero.
Currencies == {"USD", "EUR", "GBP"}
RateValues == {None, Some(Dec(0, 1)), Some(Dec(0 - 2, 1)), Some(Dec(3, 1)), Some(Dec(6, 5))}
Amounts == {Dec(0, 1), Dec(10, 1), Dec(12, 1), Dec(0 - 5, 1)}
Snapshots3 ==
    {Rates(b, t, 0) : b \in {"USD", "EUR"}, t \in [Currencies -> RateValues]}

NoConversion == [S |-> None, amount |-> None, src |-> "", dst |-> "", out |-> None, back |-> None]
\* SpecFetch: where fetch_latest_rates stands (from), the table and the base
\* of the snapshot, the turn of the Yahoo loop (next), the entries counted at
\* its end (got), what the last turn requested (last) and the fallback
\* response accepted (resp).
NoTable == [from |-> "none", table |-> None, base |-> None, next |-> 1, got |-> None,
            last |-> None, resp |-> None]
NoRequest == [stage |-> "none"]
NoHistory == [stage |-> "none"]

(***************************************************************************)
(* rates.py: one call of get_rates                                         *)
(***************************************************************************)
Providers == <<"yahoo", "ecb", "open_er">>

\* The locals of a thread: latest (rates.py:226) while get_rates runs, then
\* what get_rates returned to the refresh worker (fresh, app.py:750) and how:
\* kind is hit (rates.py:222), fetched (228), stale (232) or raised (233).
NoCall == [latest |-> None, kind |-> "none", val |-> None]

\* What SpecLib's caller observes of a call (history, no effect on the program):
\*   uc      the argument use_cache
\*   cached  what line 220 loaded;  tcheck  the clock read at line 221 (-1: not read)
\*   tried   the providers contacted, in order;  won  the one that answered (0: none)
\*   answers which providers would answer with a valid response, if asked
\*   wrote   how the write of line 227 ended;  io  the cache I/O and fetches, in order
\*   kind, val   how the call ended and what it returned
NoLog == [uc |-> FALSE, cached |-> None, tcheck |-> -1, tried |-> <<>>, won |-> 0,
          answers |-> None,
          wrote |-> "none", io |-> <<>>, kind |-> "none", val |-> None]
Observed(p, l) == IF role[p] = "caller" THEN l ELSE call

\* Faulty variant of the release: the lock stays with its holder.
KeepsLock == _rates_lock' = _rates_lock

\* Faulty variant of the acquisition: the lock is taken though it is held.
Barges(p) == _rates_lock' = Some(p)

Acquire(p) == _rates_lock = None /\ _rates_lock' = Some(p)
Release == _rates_lock' = None

\* An access to _rates, with whether the thread holds the lock as it makes it.
Access(p, site, op) ==
    acc' = Some([site |-> site, op |-> op, locked |-> (_rates_lock = Some(p))])

Response(to, status, body) == Some([to |-> to, status |-> status, body |-> body])

\* A thread ends: its locals are gone.
Ends(p) ==
    /\ pc' = [pc EXCEPT ![p] = IF p = 0 THEN "done" ELSE "idle"]
    /\ role' = [role EXCEPT ![p] = IF p = 0 THEN role[p] ELSE "idle"]
    /\ gr' = [gr EXCEPT ![p] = NoCall]
    /\ saw_none' = [saw_none EXCEPT ![p] = FALSE]

\* get_rates returns to the caller of SpecLib, which is ready for its next call.
LibReturn(p, kind, val) ==
    /\ pc' = [pc EXCEPT ![p] = "idle"]
    /\ gr' = [gr EXCEPT ![p] = NoCall]
    /\ http' = None
    /\ acc' = None
    /\ UNCHANGED <<_rates, _rates_lock, role, saw_none>>

\* app.py:73  get_rates returned inside _ensure_rates_loaded: _rates is
\* assigned and the lock released; or it raised: the with statement releases
\* the lock and the exception goes to the caller, which swallows it (the preload
\* worker, app.py:80-82) or answers 503 (the convert handler, app.py:723-724).
\* On a normal return the preload worker ends and the convert handler goes on
\* to line 726.
EnsureReturn(p, kind, val) ==
    /\ Release
    /\ IF kind = "raised"
       THEN /\ Ends(p)
            /\ http' = IF role[p] = "convert"
                       THEN Response("convert", 503, "Rates unavailable")
                       ELSE None
            /\ acc' = None
            /\ UNCHANGED _rates
       ELSE /\ _rates' = val
            /\ Access(p, "ensure:73", "write")
            /\ http' = None
            /\ IF role[p] = "preload"
               THEN Ends(p)
               ELSE /\ pc' = [pc EXCEPT ![p] = "cv_lock"]
                    /\ gr' = [gr EXCEPT ![p] = NoCall]
                    /\ saw_none' = [saw_none EXCEPT ![p] = FALSE]
                    /\ UNCHANGED role

\* Faulty variant of the refresh worker: it assigns without taking the lock.
WorkerSkipsLock == "rw_assign"

\* Where the refresh worker goes when get_rates returned a snapshot (app.py:751).
WorkerAfterGetRates == "rw_lock"

\* app.py:750, 753-754  fresh = get_rates(use_cache=False) returned, or raised
\* and the worker swallows the exception and ends.
WorkerReturn(p, kind, val) ==
    /\ IF kind = "raised"
       THEN Ends(p)
       ELSE /\ pc' = [pc EXCEPT ![p] = WorkerAfterGetRates]
            /\ gr' = [gr EXCEPT ![p] = [NoCall EXCEPT !.kind = kind, !.val = val]]
            /\ UNCHANGED <<role, saw_none>>
    /\ http' = None
    /\ acc' = None
    /\ UNCHANGED <<_rates, _rates_lock>>

\* get_rates returns val (or raises) to the thread that called it.
Returns(p, kind, val) ==
    CASE role[p] = "caller" -> LibReturn(p, kind, val)
      [] role[p] = "worker" -> WorkerReturn(p, kind, val)
      [] OTHER -> EnsureReturn(p, kind, val)

\* get_rates goes on to its next statement.
GoesOn(p, to) ==
    /\ pc' = [pc EXCEPT ![p] = to]
    /\ http' = None
    /\ acc' = None
    /\ UNCHANGED <<_rates, _rates_lock, role, saw_none>>

\* get_rates entered (rates.py:216-219).
GetRatesEntry(use_cache) == IF use_cache THEN "gr_load" ELSE "gr_fetch"
GetRatesPcs == {"gr_load", "gr_fetch", "gr_save", "gr_fallback"}

\* rates.py:219-222  if use_cache: cached = load_cached_rates(); if cached and
\* (int(time.time()) - cached.timestamp) < CACHE_TTL_SECONDS: return cached
\* The subtraction raises TypeError when the timestamp is no number; line 221
\* is outside the try of line 225, so get_rates raises it.
GR_Load(p) ==
    /\ pc[p] = "gr_load"
    /\ LET c == load_cached_rates(cache_file)
           raises == c # None /\ ~IsNumber(c[1].timestamp)
           hit == ~raises /\ c # None /\ Fresh(now, c[1].timestamp)
       IN /\ CASE raises -> Returns(p, "raised", None)
               [] hit -> Returns(p, "hit", c)
               [] OTHER -> GoesOn(p, "gr_fetch") /\ UNCHANGED gr
          /\ call' = Observed(p, [call EXCEPT !.cached = c, !.tcheck = now,
                                              !.io = Append(@, "load"),
                                              !.kind = CASE raises -> "raised"
                                                         [] hit -> "hit"
                                                         [] OTHER -> @,
                                              !.val = IF hit THEN c ELSE @])
    /\ UNCHANGED <<now, cache_file, prev, cv, fx, rq, hs>>

\* What a provider that answers yields.  fetch_yahoo_rates (rates.py:107-144)
\* builds base USD from direct quotes (Decimal(str(float))) or reciprocals of
\* inverse quotes; the two fallbacks (rates.py:166-186) build base EUR from
\* JSON numbers.
ProviderBase(n) == IF n = 1 THEN "USD" ELSE "EUR"
ProviderTables(n) == IF n = 1 THEN {"dec17", "dec28"} ELSE {"dec17"}

\* Faulty variant of the chain: the last provider that answers wins.
LastAnswer(answers, n) ==
    IF answers[3] THEN 3 ELSE IF answers[2] THEN 2 ELSE IF answers[1] THEN 1 ELSE 0

\* fetch_latest_rates (rates.py:158-188).  answers[n] tells whether provider n
\* would answer with a structurally valid response.  The providers are
\* contacted in order until one answers: the result is the number of the
\* provider that answered, 0 when none did, and the list of those contacted.
RECURSIVE FirstAnswer(_, _)
FirstAnswer(answers, n) ==
    IF n > Len(Providers) THEN 0
    ELSE IF answers[n] THEN n
    ELSE FirstAnswer(answers, n + 1)
Contacted(answers) ==
    LET w == FirstAnswer(answers, 1)
    IN SubSeq(Providers, 1, IF w = 0 THEN Len(Providers) ELSE w)

\* Faulty variant of the try block: the save is reached whatever the fetch gave.
SavesAnyway(w) == "gr_save"

\* Faulty variant of the try block: a failed fetch is made again.
RetriesFetch(w) == IF w # 0 THEN "gr_save" ELSE "gr_fetch"

\* rates.py:225-229  the statement after latest = fetch_latest_rates(): the
\* save when a provider answered, the except clause when the fetch raised.
AfterFetch(w) == IF w # 0 THEN "gr_save" ELSE "gr_fallback"

\* rates.py:225-226  latest = fetch_latest_rates()
GR_Fetch(p, answers, tbl) ==
    /\ pc[p] = "gr_fetch"
    /\ LET w == FirstAnswer(answers, 1)
       IN IF w # 0
          THEN /\ tbl \in ProviderTables(w)
               /\ gr' = [gr EXCEPT ![p].latest = Some(Rates(ProviderBase(w), tbl, now))]
               /\ GoesOn(p, AfterFetch(w))
          ELSE /\ tbl = "dec17"
               /\ gr' = gr
               /\ GoesOn(p, AfterFetch(w))
    /\ call' = Observed(p, [call EXCEPT !.tried = Contacted(answers),
                                        !.won = FirstAnswer(answers, 1),
                                        !.answers = Some(answers),
                                        !.io = Append(@, "fetch")])
    /\ UNCHANGED <<now, cache_file, prev, cv, fx, rq, hs>>

\* Faulty variant of the save: a failed write makes the call fail.
SaveMustSucceed(o) == IF o = "ok" THEN "fetched" ELSE "raised"

\* rates.py:210-213  try: write_text(...) except Exception: pass -- however
\* the write ends, save_cached_rates returns and get_rates returns latest.
AfterSave(o) == "fetched"

\* rates.py:227-228  save_cached_rates(latest); return latest
GR_Save(p, o) ==
    /\ pc[p] = "gr_save"
    /\ cache_file' = save_cached_rates(cache_file, gr[p].latest[1], o)
    /\ Returns(p, AfterSave(o), gr[p].latest)
    /\ call' = Observed(p, [call EXCEPT !.wrote = o, !.io = Append(@, "save"),
                                        !.kind = AfterSave(o), !.val = gr[p].latest])
    /\ UNCHANGED <<now, prev, cv, fx, rq, hs>>

\* Faulty variants of the fallback: it raises though a record was loaded; it
\* returns whatever the load gave, a missing record included.
FallbackRaises(c) == "raised"
FallbackReturns(c) == "stale"

\* rates.py:229-233  except: cached = load_cached_rates(); return it or raise
FallbackKind(c) == IF c # None THEN "stale" ELSE "raised"
GR_Fallback(p) ==
    /\ pc[p] = "gr_fallback"
    /\ LET c == load_cached_rates(cache_file)
       IN /\ Returns(p, FallbackKind(c), c)
          /\ call' = Observed(p, [call EXCEPT !.io = Append(@, "load"),
                                              !.kind = FallbackKind(c), !.val = c])
    /\ UNCHANGED <<now, cache_file, prev, cv, fx, rq, hs>>

\* The answers the three providers may give to one fetch.
Answers == [1..3 -> BOOLEAN]

GetRatesStep(p) ==
    \/ GR_Load(p)
    \/ \E a \in Answers, tbl \in {"dec17", "dec28"} : GR_Fetch(p, a, tbl)
    \/ \E o \in WriteOutcomes : GR_Save(p, o)
    \/ GR_Fallback(p)

\* time passes
Tick ==
    /\ now < MaxNow
    /\ now' = now + 1
    /\ http' = None
    /\ acc' = None
    /\ UNCHANGED <<cache_file, _rates, _rates_lock, role, pc, gr, saw_none, call, prev, cv, fx, rq, hs>>

(***************************************************************************)
(* SpecLib: get_rates called directly, one call after the other            *)
(***************************************************************************)
Caller == 0

\* The cache file a run may find at start: none, an unparseable one, or the
\* record an earlier run saved.
InitialFiles == {Missing, Corrupt, Stored(Rates("USD", "f64", 1))}

InitWith(files) ==
    /\ now = StartTime
    /\ cache_file \in files
    /\ _rates = None
    /\ _rates_lock = None
    /\ gr = [p \in Procs |-> NoCall]
    /\ http = None
    /\ saw_none = [p \in Procs |-> FALSE]
    /\ acc = None
    /\ call = NoLog
    /\ prev = None
    /\ cv = NoConversion
    /\ fx = NoTable
    /\ rq = NoRequest
    /\ hs = NoHistory

InitCommon == InitWith(InitialFiles)

LibInit ==
    /\ InitCommon
    /\ role = [p \in Procs |-> IF p = Caller THEN "caller" ELSE "idle"]
    /\ pc = [p \in Procs |-> "idle"]

\* get_rates(use_cache) is called (tests/test_yahoo_rates.py:62); the caller
\* remembers the call before.
LibCall(use_cache) ==
    /\ pc[Caller] = "idle"
    /\ prev' = IF call.kind = "none" THEN None ELSE Some(call)
    /\ call' = [NoLog EXCEPT !.uc = use_cache]
    /\ pc' = [pc EXCEPT ![Caller] = GetRatesEntry(use_cache)]
    /\ http' = None
    /\ acc' = None
    /\ UNCHANGED <<now, cache_file, _rates, _rates_lock, role, gr, saw_none, cv, fx, rq, hs>>

LibNext ==
    \/ \E u \in BOOLEAN : LibCall(u)
    \/ GetRatesStep(Caller)
    \/ Tick

SpecLib == LibInit /\ [][LibNext]_vars

\* SpecAnyFile: the same calls, started on any cache file, one that parses
\* yet is no saved record included.
AnyFiles == InitialFiles \cup {Partial, BadStamp}

AnyFileInit ==
    /\ InitWith(AnyFiles)
    /\ role = [p \in Procs |-> IF p = Caller THEN "caller" ELSE "idle"]
    /\ pc = [p \in Procs |-> "idle"]

SpecAnyFile == AnyFileInit /\ [][LibNext]_vars

(***************************************************************************)
(* app.py: the snapshot slot, its lock and the threads                     *)
(***************************************************************************)
\* app.py:71  with _rates_lock:
EnsureLock(p) ==
    /\ pc[p] = "en_lock"
    /\ Acquire(p)
    /\ pc' = [pc EXCEPT ![p] = "en_check"]
    /\ http' = None
    /\ acc' = None
    /\ UNCHANGED <<now, cache_file, _rates, role, gr, saw_none, call, prev, cv, fx, rq, hs>>

\* app.py:72-73  if _rates is None: _rates = get_rates()   (get_rates entered);
\* else the lock is released and _ensure_rates_loaded returns: the preload
\* worker ends (app.py:79), the convert handler goes on to line 726.
EnsureCheck(p) ==
    /\ pc[p] = "en_check"
    /\ Access(p, "ensure:72", "read")
    /\ IF _rates = None
       THEN /\ pc' = [pc EXCEPT ![p] = GetRatesEntry(TRUE)]
            /\ UNCHANGED <<_rates_lock, role, gr, saw_none>>
       ELSE /\ Release
            /\ IF role[p] = "preload"
               THEN Ends(p)
               ELSE /\ pc' = [pc EXCEPT ![p] = "cv_lock"]
                    /\ saw_none' = [saw_none EXCEPT ![p] = FALSE]
                    /\ UNCHANGED <<role, gr>>
    /\ http' = None
    /\ UNCHANGED <<now, cache_file, _rates, call, prev, cv, fx, rq, hs>>

\* A new thread starts: the lowest idle one (threads are interchangeable).
Idle(t) == role[t] = "idle"
Starts(t) == Idle(t) /\ \A j \in Threads : j < t => ~Idle(j)

\* Faulty variant of the handler: it calls get_rates itself when the slot is
\* filled.
ConvertAlwaysLoads(is_none) == IF is_none THEN "en_lock" ELSE "gr_load"

\* Faulty variant of the handler: it never loads, whatever the slot holds.
ConvertNeverLoads(is_none) == "cv_lock"

\* What the handler does once the amount is parsed (app.py:720): the unlocked
\* pre-check of the slot decides between loading and converting.
ConvertPrecheckPc(is_none) == IF is_none THEN "en_lock" ELSE "cv_lock"

\* GET /api/convert, app.py:707-717: the amount is missing (400), is not a
\* decimal (400), or parses.
AmountKinds == {"missing", "invalid", "decimal"}
ConvertRequest(h, amt) ==
    /\ Starts(h)
    /\ IF amt = "decimal"
       THEN /\ pc' = [pc EXCEPT ![h] = "cv_precheck"]
            /\ role' = [role EXCEPT ![h] = "convert"]
            /\ http' = None
       ELSE /\ http' = Response("convert", 400, IF amt = "missing" THEN "Amount required"
                                                ELSE "Invalid amount")
            /\ UNCHANGED <<pc, role>>
    /\ acc' = None
    /\ UNCHANGED <<now, cache_file, _rates, _rates_lock, gr, saw_none, call, prev, cv, fx, rq, hs>>

\* app.py:720  if _rates is None:   (read without the lock)
ConvertPrecheck(p) ==
    /\ pc[p] = "cv_precheck"
    /\ Access(p, "convert:720", "read")
    /\ saw_none' = [saw_none EXCEPT ![p] = (_rates = None)]
    /\ pc' = [pc EXCEPT ![p] = ConvertPrecheckPc(_rates = None)]
    /\ http' = None
    /\ UNCHANGED <<now, cache_file, _rates, _rates_lock, role, gr, call, prev, cv, fx, rq, hs>>

\* app.py:727  with _rates_lock:
ConvertLock(p) ==
    /\ pc[p] = "cv_lock"
    /\ Acquire(p)
    /\ pc' = [pc EXCEPT ![p] = "cv_body"]
    /\ http' = None
    /\ acc' = None
    /\ UNCHANGED <<now, cache_file, _rates, role, gr, saw_none, call, prev, cv, fx, rq, hs>>

\* app.py:727-743  r = _rates; r.convert(...) returns or raises (400); an
\* empty slot raises "Rates not loaded" (400).  converts tells whether src and
\* dst resolve in the snapshot's table.  The answer is then built outside any
\* try (app.py:735-742) with float() and format_decimal() of the amount and of
\* the result: renders tells whether they return; format_decimal raises
\* InvalidOperation when quantize needs more than 28 digits (an amount of
\* 1E+30), and the server answers 500.
ConvertBody(p, converts, renders) ==
    /\ pc[p] = "cv_body"
    /\ Access(p, "convert:728", "read")
    /\ Release
    /\ http' = IF _rates = None THEN Response("convert", 400, "Rates not loaded")
               ELSE IF ~converts THEN Response("convert", 400, "Unknown or invalid currency")
               ELSE IF renders THEN Response("convert", 200, "converted")
               ELSE Response("convert", 500, "Internal Server Error")
    /\ Ends(p)
    /\ UNCHANGED <<now, cache_file, _rates, call, prev, cv, fx, rq, hs>>

\* POST /api/refresh, app.py:746-755: the worker thread is started with
\* get_rates(use_cache=False) as its first statement.
RefreshRequest(h, w) ==
    /\ Starts(h)
    /\ Idle(w) /\ w # h
    /\ \A j \in Threads : (j < w /\ j # h) => ~Idle(j)
    /\ role' = [role EXCEPT ![h] = "refresh", ![w] = "worker"]
    /\ pc' = [pc EXCEPT ![h] = "rf_return", ![w] = GetRatesEntry(FALSE)]
    /\ http' = None
    /\ acc' = None
    /\ UNCHANGED <<now, cache_file, _rates, _rates_lock, gr, saw_none, call, prev, cv, fx, rq, hs>>

\* Faulty variant of the refresh handler: its answer depends on the slot.
RefreshResponseByOutcome ==
    IF _rates = None THEN Response("refresh", 503, "Rates unavailable")
    ELSE Response("refresh", 200, "refreshing")

\* app.py:756  return jsonify({"status": "refreshing"})
RefreshResponse == Response("refresh", 200, "refreshing")
RefreshRespond(p) ==
    /\ pc[p] = "rf_return"
    /\ http' = RefreshResponse
    /\ Ends(p)
    /\ acc' = None
    /\ UNCHANGED <<now, cache_file, _rates, _rates_lock, call, prev, cv, fx, rq, hs>>

\* app.py:751  with _rates_lock:
WorkerLock(p) ==
    /\ pc[p] = "rw_lock"
    /\ Acquire(p)
    /\ pc' = [pc EXCEPT ![p] = "rw_assign"]
    /\ http' = None
    /\ acc' = None
    /\ UNCHANGED <<now, cache_file, _rates, role, gr, saw_none, call, prev, cv, fx, rq, hs>>

\* app.py:752  globals()["_rates"] = fresh   (and the lock is released)
WorkerAssign(p) ==
    /\ pc[p] = "rw_assign"
    /\ _rates' = gr[p].val
    /\ Access(p, "refresh:752", "write")
    /\ Release
    /\ Ends(p)
    /\ http' = None
    /\ UNCHANGED <<now, cache_file, call, prev, cv, fx, rq, hs>>

\* main (app.py:786-798): the preload worker is started before the server
\* accepts a request.
Init ==
    /\ InitCommon
    /\ role = [p \in Procs |-> IF p = Preload THEN "preload" ELSE "idle"]
    /\ pc = [p \in Procs |-> IF p = Preload THEN "en_lock" ELSE "idle"]

ThreadStep(p) ==
    \/ EnsureLock(p)
    \/ EnsureCheck(p)
    \/ GetRatesStep(p)
    \/ ConvertPrecheck(p)
    \/ ConvertLock(p)
    \/ \E c \in BOOLEAN, r \in BOOLEAN : ConvertBody(p, c, r)
    \/ RefreshRespond(p)
    \/ WorkerLock(p)
    \/ WorkerAssign(p)

Next ==
    \/ \E h \in Threads, amt \in AmountKinds : ConvertRequest(h, amt)
    \/ \E h \in Threads, w \in Threads : RefreshRequest(h, w)
    \/ \E p \in Procs : ThreadStep(p)
    \/ Tick

Spec == Init /\ [][Next]_vars

(***************************************************************************)
(* SpecReliable: the application on a disk whose writes all succeed        *)
(***************************************************************************)
\* The steps of a thread when write_text (rates.py:211) never fails.
ReliableStep(p) ==
    \/ EnsureLock(p)
    \/ EnsureCheck(p)
    \/ GR_Load(p)
    \/ \E a \in Answers, tbl \in {"dec17", "dec28"} : GR_Fetch(p, a, tbl)
    \/ GR_Save(p, "ok")
    \/ GR_Fallback(p)
    \/ ConvertPrecheck(p)
    \/ ConvertLock(p)
    \/ \E c \in BOOLEAN, r \in BOOLEAN : ConvertBody(p, c, r)
    \/ RefreshRespond(p)
    \/ WorkerLock(p)
    \/ WorkerAssign(p)

ReliableNext ==
    \/ \E h \in Threads, amt \in AmountKinds : ConvertRequest(h, amt)
    \/ \E h \in Threads, w \in Threads : RefreshRequest(h, w)
    \/ \E p \in Procs : ReliableStep(p)
    \/ Tick

SpecReliable == Init /\ [][ReliableNext]_vars

(***************************************************************************)
(* SpecConvert: Rates.convert called on a snapshot, then back              *)
(***************************************************************************)
\* Nothing of the application runs.
Quiet ==
    /\ now = StartTime
    /\ cache_file = Missing
    /\ _rates = None
    /\ _rates_lock = None
    /\ role = [p \in Procs |-> "idle"]
    /\ pc = [p \in Procs |-> "idle"]
    /\ gr = [p \in Procs |-> NoCall]
    /\ http = None
    /\ saw_none = [p \in Procs |-> FALSE]
    /\ acc = None
    /\ call = NoLog
    /\ prev = None
UnchangedApp ==
    UNCHANGED <<now, cache_file, _rates, _rates_lock, role, pc, gr, http, saw_none, acc,
                call, prev>>

ConvertInit ==
    /\ Quiet
    /\ fx = NoTable
    /\ rq = NoRequest
    /\ hs = NoHistory
    /\ \E S \in Snapshots3, x \in Amounts, a \in Currencies, b \in Currencies :
          cv = [S |-> Some(S), amount |-> Some(x), src |-> a, dst |-> b,
                out |-> None, back |-> None]

\* r.convert(amount, src, dst)   (tests/test_yahoo_rates.py:10)
CvConvert ==
    /\ cv.out = None
    /\ cv' = [cv EXCEPT !.out = Some(convert(cv.S[1], cv.amount[1], cv.src, cv.dst))]
    /\ UnchangedApp
    /\ UNCHANGED <<fx, rq, hs>>

\* r.convert(eur, dst, src) on the amount the first call returned
\* (tests/test_yahoo_rates.py:11)
CvBack ==
    /\ cv.out # None /\ cv.out[1].kind = "value"
    /\ cv.back = None
    /\ cv' = [cv EXCEPT !.back = Some(convert(cv.S[1], cv.out[1].val, cv.dst, cv.src))]
    /\ UnchangedApp
    /\ UNCHANGED <<fx, rq, hs>>

ConvertNext == CvConvert \/ CvBack
SpecConvert == ConvertInit /\ [][ConvertNext]_vars

(***************************************************************************)
(* SpecHandler: one GET /api/convert request, from its amount to its answer *)
(***************************************************************************)
\* rates.py:17  DECIMAL_PLACES = 4
DECIMAL_PLACES == 4

\* The Decimals an amount string can denote: a finite one, kept as q * 10^e
\* (q as above; the power of ten apart, for the magnitudes a 32-bit numerator
\* cannot hold), a quiet or signaling NaN, or an infinity.  Multiplying or
\* dividing by a rate acts on q and leaves e alone.
Finite(q, e) == [kind |-> "finite", q |-> q, e |-> e]
NaN == [kind |-> "NaN"]
sNaN == [kind |-> "sNaN"]
Infinity == [kind |-> "Infinity"]

\* app.py:710, 714  amt_str = request.args.get("amount", "").strip();
\* Decimal(amt_str): the Decimal the string denotes, None when the
\* constructor raises InvalidOperation.
AmountStrings ==
    {"", "abc", "10", "1.23455", "-1.23455", "1.23445", "0.00005", "NaN", "sNaN",
     "Infinity", "1E+30"}
DecimalOf(t) ==
    CASE t = "10" -> Some(Finite(Dec(10, 1), 0))
      [] t = "1.23455" -> Some(Finite(Dec(123455, 100000), 0))
      [] t = "-1.23455" -> Some(Finite(Dec(0 - 123455, 100000), 0))
      [] t = "1.23445" -> Some(Finite(Dec(123445, 100000), 0))
      [] t = "0.00005" -> Some(Finite(Dec(5, 100000), 0))
      [] t = "1E+30" -> Some(Finite(Dec(1, 1), 30))
      [] t = "NaN" -> Some(NaN)
      [] t = "sNaN" -> Some(sNaN)
      [] t = "Infinity" -> Some(Infinity)
      [] OTHER -> None

\* r.convert(amount, src, dst) (app.py:731) on any Decimal.  The checks of
\* rates.py:41-55 do not look at the amount; when they pass and the
\* currencies differ the amount is divided or multiplied, which a signaling
\* NaN refuses (InvalidOperation) and a quiet NaN or an infinity survives.
ConvertAny(S, a, src, dst) ==
    IF a.kind = "finite"
    THEN LET r == convert(S, a.q, src, dst)
         IN IF r.kind = "value" THEN Value(Finite(r.val, a.e)) ELSE r
    ELSE LET r == convert(S, Dec(1, 1), src, dst)
         IN IF r.kind # "value" THEN r
            ELSE IF SameCurrency(src, dst) THEN Value(a)
            ELSE IF a.kind = "sNaN" THEN Raised("InvalidOperation")
            ELSE Value(a)

\* app.py:736, 739  float(amount): a signaling NaN has no float.
float_of(v) == IF v.kind = "sNaN" THEN Raised("ValueError") ELSE Value("f64")

RECURSIVE Pow10(_)
Pow10(k) == IF k = 0 THEN 1 ELSE 10 * Pow10(k - 1)

\* Faulty variant of the rounding: a tie goes to the even neighbour.
RoundHalfEven(n, d, p) ==
    LET m == Abs(n)
        scaled == (m % d) * Pow10(p)
        u == (m \div d) * Pow10(p) + scaled \div d
        r == scaled % d
        up == IF 2 * r > d \/ (2 * r = d /\ u % 2 = 1) THEN u + 1 ELSE u
    IN IF n < 0 THEN 0 - up ELSE up

\* rates.py:239  rounding=ROUND_HALF_UP: n/d in units of 10^-p, the nearest
\* integer, a tie going away from zero.
RoundHalfUp(n, d, p) ==
    LET m == Abs(n)
        scaled == (m % d) * Pow10(p)
        u == (m \div d) * Pow10(p) + scaled \div d
        r == scaled % d
        up == IF 2 * r >= d THEN u + 1 ELSE u
    IN IF n < 0 THEN 0 - up ELSE up

\* The number of digits of the integer part of (m/d) * 10^e.
RECURSIVE IntDigits(_, _, _)
IntDigits(m, d, e) ==
    IF m >= d THEN Digits(m \div d) + e
    ELSE IF e = 0 \/ m = 0 THEN 0
    ELSE IntDigits(m * 10, d, e - 1)

\* rates.py:238-239  value.quantize(Decimal(10) ** -places, ROUND_HALF_UP): a
\* NaN stays a NaN; a signaling NaN and an infinity raise InvalidOperation,
\* and so does a finite value whose coefficient at that exponent would have
\* more than PREC digits; any other value is rounded to units of 10^-places.
quantize(v, places) ==
    CASE v.kind = "NaN" -> Value(NaN)
      [] v.kind \in {"sNaN", "Infinity"} -> Raised("InvalidOperation")
      [] OTHER ->
           IF IntDigits(Abs(v.q.n), v.q.d, v.e) + places > PREC
           THEN Raised("InvalidOperation")
           ELSE Value([kind |-> "units",
                       units |-> RoundHalfUp(v.q.n * Pow10(v.e), v.q.d, places),
                       places |-> places])

\* rates.py:236-239  str(value.quantize(q, rounding=ROUND_HALF_UP)): the sign,
\* the integer part and exactly `places` fractional digits, or "NaN".
format_decimal(value, places) == quantize(value, places)

\* What the handler answers; escaped is the exception that left it, if one
\* did (Flask then answers 500).
Answer(status, body) == [status |-> status, body |-> body, escaped |-> None]
Escapes(what) == [status |-> 500, body |-> "Internal Server Error", escaped |-> Some(what)]

\* app.py:735-742  the answer is built outside any try: float(amount),
\* float(converted), format_decimal(amount, DECIMAL_PLACES),
\* format_decimal(converted, DECIMAL_PLACES), in this order.
respond(amount, converted) ==
    LET fa == format_decimal(amount, DECIMAL_PLACES)
        fc == format_decimal(converted, DECIMAL_PLACES)
    IN IF float_of(amount).kind = "raised" THEN Escapes(float_of(amount).what)
       ELSE IF float_of(converted).kind = "raised" THEN Escapes(float_of(converted).what)
       ELSE IF fa.kind = "raised" THEN Escapes(fa.what)
       ELSE IF fc.kind = "raised" THEN Escapes(fc.what)
       ELSE Answer(200, [formatted_amount |-> fa.val, formatted_converted |-> fc.val])

\* The snapshots the request may find or load: one of base USD without GBP,
\* one of base EUR with a zero entry.
HandlerSnapshots ==
    {Rates("USD", [c \in Currencies |-> CASE c = "USD" -> Some(Dec(1, 1))
                                          [] c = "EUR" -> Some(Dec(6, 5))
                                          [] OTHER -> None], 0),
     Rates("EUR", [c \in Currencies |-> CASE c = "EUR" -> Some(Dec(1, 1))
                                          [] c = "USD" -> Some(Dec(3, 1))
                                          [] OTHER -> Some(Dec(0, 1))], 0)}

\* The request arrives: its parameters, the slot as it will find it, and what
\* get_rates gives if the handler has to call it (None: it raises).
HandlerInit ==
    /\ Quiet
    /\ cv = NoConversion
    /\ fx = NoTable
    /\ hs = NoHistory
    /\ \E t \in AmountStrings, a \in Currencies, b \in Currencies,
          slot \in {None} \cup {Some(S) : S \in HandlerSnapshots},
          loads \in {None} \cup {Some(S) : S \in HandlerSnapshots} :
          /\ slot # None => loads = None
          /\ rq = [stage |-> "received", amt_str |-> t, src |-> a, dst |-> b,
                   slot |-> slot, loads |-> loads,
                   amount |-> None, converted |-> None, answer |-> None]

Answered(a) == [rq EXCEPT !.stage = "answered", !.answer = Some(a)]

\* app.py:710-717
HParse ==
    /\ rq.stage = "received"
    /\ rq' = IF rq.amt_str = "" THEN Answered(Answer(400, "Amount required"))
             ELSE IF DecimalOf(rq.amt_str) = None THEN Answered(Answer(400, "Invalid amount"))
             ELSE [rq EXCEPT !.stage = "parsed", !.amount = DecimalOf(rq.amt_str)]
    /\ UnchangedApp
    /\ UNCHANGED <<cv, fx, hs>>

\* app.py:720-724
HEnsure ==
    /\ rq.stage = "parsed"
    /\ rq' = IF rq.slot # None THEN [rq EXCEPT !.stage = "ensured"]
             ELSE IF rq.loads = None THEN Answered(Answer(503, "Rates unavailable"))
             ELSE [rq EXCEPT !.stage = "ensured", !.slot = rq.loads]
    /\ UnchangedApp
    /\ UNCHANGED <<cv, fx, hs>>

\* app.py:726-734
HConvert ==
    /\ rq.stage = "ensured"
    /\ rq' = IF rq.slot = None THEN Answered(Answer(400, "Rates not loaded"))
             ELSE LET r == ConvertAny(rq.slot[1], rq.amount[1], rq.src, rq.dst)
                  IN IF r.kind = "value"
                     THEN [rq EXCEPT !.stage = "converted", !.converted = Some(r.val)]
                     ELSE Answered(Answer(400, r))
    /\ UnchangedApp
    /\ UNCHANGED <<cv, fx, hs>>

\* app.py:735-742
HRespond ==
    /\ rq.stage = "converted"
    /\ rq' = Answered(respond(rq.amount[1], rq.converted[1]))
    /\ UnchangedApp
    /\ UNCHANGED <<cv, fx, hs>>

HandlerNext == HParse \/ HEnsure \/ HConvert \/ HRespond
SpecHandler == HandlerInit /\ [][HandlerNext]_vars

(***************************************************************************)
(* SpecFetch: fetch_latest_rates, one provider after the other, and the    *)
(* rate table of the snapshot it gives                                     *)
(***************************************************************************)
\* rates.py:140  if len(rates) < 5: raise RuntimeError
MinCoverage == 5

\* Faulty variant of the coverage check: any table will do.
NeverTooSparse(k) == FALSE

\* rates.py:140  len(rates) < 5
TooSparse(k) == k < MinCoverage

\* rates.py:112  the first of priority_currencies, in the order of the loop.
priority_currencies == <<"EUR", "GBP", "JPY", "AUD", "CAD">>
YahooCodes == {priority_currencies[i] : i \in DOMAIN priority_currencies}

\* What a JSON number may be: absent, zero, negative or positive.  What
\* _fetch_yahoo_rate (rates.py:59-104) may return: None, or Decimal(str(x)) of
\* the float x of the last close, which is one of these numbers or NaN.
Quotes == {None, Some(Dec(0, 1)), Some(Dec(0 - 2, 1)), Some(Dec(2, 1))}
YahooQuotes == Quotes \cup {Some(NaN)}

\* Faulty variant of the entry: the reverse quote is stored as it is.
StoresReverse(direct, reverse) ==
    IF direct # None /\ direct[1].n > 0 THEN direct
    ELSE IF reverse # None /\ reverse[1].n > 0 THEN reverse
    ELSE None

\* rates.py:119-126  the direct quote if it is above zero, else the
\* reciprocal of the reverse quote if that is above zero, else no entry.
yahoo_entry(direct, reverse) ==
    IF direct # None /\ direct[1].n > 0 THEN direct
    ELSE IF reverse # None /\ reverse[1].n > 0
         THEN Some(DecDiv(Dec(1, 1), reverse[1]))
    ELSE None

\* rates.py:120-123  the reverse pair is requested in the else branch of
\* `rate is not None and rate > 0`.
asks_reverse(direct) == ~(direct # None /\ direct[1].n > 0)

\* rates.py:120, 125  `rate > 0` raises InvalidOperation when the quote is
\* NaN; nothing in fetch_yahoo_rates catches it.
pair_raises(direct, reverse) ==
    \/ direct = Some(NaN)
    \/ (asks_reverse(direct) /\ reverse = Some(NaN))

\* len(rates): the entries of a table.
Entries(t) == Cardinality({c \in DOMAIN t : t[c] # None})

\* The codes of a fallback's rates object, and its values: absent, a number,
\* or something Decimal(str(v)) refuses (null).
FallbackCodes == {"USD", "GBP", "JPY"}
Null == [kind |-> "null"]
JsonTables == [FallbackCodes -> Quotes \cup {Some(Null)}]
NoRates == [c \in FallbackCodes |-> None]

\* rates.py:171, 182  {k: Decimal(str(v)) for k, v in data["rates"].items()}:
\* the table, or None when a value makes Decimal raise.
fallback_rates(json) ==
    IF \E c \in DOMAIN json : json[c] = Some(Null) THEN None ELSE Some(json)

\* What _fetch_json_fallback (rates.py:147-155) may return for each fallback:
\* None, or a JSON object in which each key the code looks at is absent (None)
\* or holds a value.
JsonRates == {None} \cup {Some(j) : j \in JsonTables}
EcbResponses ==
    {None} \cup {Some([rates |-> r, base |-> b]) :
                    r \in JsonRates, b \in {None, Some("EUR"), Some("USD")}}
OpenErResponses ==
    {None} \cup {Some([result |-> s, base_code |-> b, rates |-> r]) :
                    s \in {None, Some("success"), Some("error")},
                    b \in {None, Some("EUR"), Some("USD")}, r \in JsonRates}

\* Faulty variant of the check of fallback 1: any base will do.
accepts_any_base(data) == data # None /\ data[1].rates # None

\* rates.py:170  if data and "rates" in data and data.get("base") == "EUR"
accepts_ecb(data) ==
    data # None /\ data[1].rates # None /\ data[1].base = Some("EUR")

\* rates.py:181  if data2 and data2.get("result") == "success" and
\* data2.get("base_code") == "EUR"
accepts_open_er(data2) ==
    data2 # None /\ data2[1].result = Some("success") /\ data2[1].base_code = Some("EUR")

\* float(v) on save (rates.py:207) and Decimal(str(v)) on load (rates.py:197):
\* the value as its nearest float, exact only when the float holds it.
ViaFloat(a) == [a EXCEPT !.rnd = IF a.rnd = 0 /\ Terminates(a.d) THEN 0 ELSE 1]
reloaded(t) == [c \in DOMAIN t |-> IF t[c] = None THEN None ELSE Some(ViaFloat(t[c][1]))]

\* fetch_latest_rates has called fetch_yahoo_rates (rates.py:162), which has
\* made its table with the base entry (rates.py:109).
FetchInit ==
    /\ Quiet
    /\ cv = NoConversion
    /\ fx = [NoTable EXCEPT
               !.table = Some([c \in YahooCodes \cup {"USD"} |->
                                  IF c = "USD" THEN Some(Dec(1, 1)) ELSE None])]
    /\ rq = NoRequest
    /\ hs = NoHistory

\* The primary provider has failed: fetch_yahoo_rates raised with got entries
\* (None: before counting them).
YahooFailed(got, last) ==
    [NoTable EXCEPT !.from = "yahoo_failed", !.got = got, !.last = last]

\* rates.py:115-126  one turn of the loop: the direct pair is requested, the
\* reverse pair if need be (reverse is what it would give).
FxPair(direct, reverse) ==
    /\ fx.from = "none" /\ fx.next <= Len(priority_currencies)
    /\ direct = Some(NaN) \/ ~asks_reverse(direct) => reverse = None
    /\ LET c == priority_currencies[fx.next]
           l == Some([code |-> c, direct |-> direct,
                      reverse_asked |-> (direct # Some(NaN) /\ asks_reverse(direct)),
                      reverse |-> reverse])
       IN fx' = IF pair_raises(direct, reverse) THEN YahooFailed(None, l)
                ELSE [fx EXCEPT !.table = Some([@[1] EXCEPT ![c] = yahoo_entry(direct, reverse)]),
                                !.next = @ + 1, !.last = l]
    /\ UnchangedApp
    /\ UNCHANGED <<cv, rq, hs>>

\* rates.py:140-144  the loop is over: too few entries raise, else the
\* snapshot of base USD is returned.
FxCoverage ==
    /\ fx.from = "none" /\ fx.next > Len(priority_currencies)
    /\ fx' = IF TooSparse(Entries(fx.table[1])) THEN YahooFailed(Some(Entries(fx.table[1])), None)
             ELSE [fx EXCEPT !.from = "yahoo", !.base = Some("USD"),
                             !.got = Some(Entries(fx.table[1])), !.last = None]
    /\ UnchangedApp
    /\ UNCHANGED <<cv, rq, hs>>

\* rates.py:166-175  fallback 1: an accepted response whose values convert
\* gives the snapshot of base EUR; anything else leads to fallback 2.
FxEcb(data) ==
    /\ fx.from = "yahoo_failed"
    /\ fx' = IF accepts_ecb(data) /\ fallback_rates(data[1].rates[1]) # None
             THEN [NoTable EXCEPT !.from = "ecb", !.base = Some("EUR"), !.resp = data,
                                  !.table = fallback_rates(data[1].rates[1])]
             ELSE [NoTable EXCEPT !.from = "ecb_failed"]
    /\ UnchangedApp
    /\ UNCHANGED <<cv, rq, hs>>

\* rates.py:177-188  fallback 2, with data2.get("rates", {}); when it fails
\* too, fetch_latest_rates raises RuntimeError.
FxOpenEr(data2) ==
    /\ fx.from = "ecb_failed"
    /\ LET json == IF data2 # None /\ data2[1].rates # None THEN data2[1].rates[1] ELSE NoRates
       IN fx' = IF accepts_open_er(data2) /\ fallback_rates(json) # None
                THEN [NoTable EXCEPT !.from = "open_er", !.base = Some("EUR"), !.resp = data2,
                                     !.table = fallback_rates(json)]
                ELSE [NoTable EXCEPT !.from = "failed"]
    /\ UnchangedApp
    /\ UNCHANGED <<cv, rq, hs>>

\* the snapshot is saved, and a later call loads it (rates.py:191-213)
FxCache ==
    /\ fx.from \in {"yahoo", "ecb", "open_er"}
    /\ fx' = [fx EXCEPT !.from = "cache", !.table = Some(reloaded(fx.table[1])),
                        !.last = None, !.resp = None]
    /\ UnchangedApp
    /\ UNCHANGED <<cv, rq, hs>>

FetchNext ==
    \/ \E d \in YahooQuotes, r \in YahooQuotes : FxPair(d, r)
    \/ FxCoverage
    \/ \E data \in EcbResponses : FxEcb(data)
    \/ \E data2 \in OpenErResponses : FxOpenEr(data2)
    \/ FxCache
SpecFetch == FetchInit /\ [][FetchNext]_vars

(***************************************************************************)
(* SpecHistory: one GET /api/historical request                            *)
(***************************************************************************)
\* app.py:770  valid_periods, and what a request may send instead (None: no
\* period parameter, app.py:764 then takes "1mo").
ValidPeriods == {"1mo", "3mo", "6mo", "1y", "2y"}
SentPeriods == {None} \cup {Some(p) : p \in ValidPeriods \cup {"5y", "max"}}

\* What ticker.history gives (rates.py:252-255): an exception, also for a
\* network error or an unknown symbol, or a frame of daily rows, here the
\* index timestamps of its rows (the closes are floats).
ProviderData == {<<>>, <<86400>>, <<86400, 172800>>}
ProviderOutcomes == {[kind |-> "error", rows |-> <<>>]} \cup
                    {[kind |-> "frame", rows |-> d] : d \in ProviderData}

Point(date, rate) == [date |-> date, rate |-> rate]

\* Faulty variant of the except clause: the exception is raised again.
Reraises == Raised("Exception")

\* rates.py:268-270  except Exception: print(...); return []
OnProviderError == Value(<<>>)

\* get_historical_data (rates.py:242-270): one point of rate 1.0 at the
\* current time for a currency against itself, without asking the provider;
\* else the provider's rows as points in milliseconds, none for an empty
\* frame; and the except clause for an error.
get_historical_data(from_currency, to_currency, period, provider, t) ==
    IF from_currency = to_currency THEN Value(<<Point(t * 1000, "1.0")>>)
    ELSE IF provider.kind = "error" THEN OnProviderError
    ELSE Value([i \in 1..Len(provider.rows) |-> Point(provider.rows[i] * 1000, "f64")])

\* app.py:769-772  a period outside valid_periods becomes "1mo"
CoercedPeriod(sent) ==
    LET period == IF sent = None THEN "1mo" ELSE sent[1]
    IN IF period \notin ValidPeriods THEN "1mo" ELSE period

HistoryCodes == {"", "USD", "EUR"}

HistoryInit ==
    /\ Quiet
    /\ cv = NoConversion
    /\ fx = NoTable
    /\ rq = NoRequest
    /\ \E f \in HistoryCodes, t \in HistoryCodes, p \in SentPeriods, o \in ProviderOutcomes :
          hs = [stage |-> "received", from |-> f, to |-> t, sent |-> p, provider |-> o,
                period |-> None, answer |-> None]

\* app.py:762-772
HsValidate ==
    /\ hs.stage = "received"
    /\ hs' = IF hs.from = "" \/ hs.to = ""
             THEN [hs EXCEPT !.stage = "answered",
                             !.answer = Some([status |-> 400,
                                              body |-> "Both 'from' and 'to' currencies required"])]
             ELSE [hs EXCEPT !.stage = "valid", !.period = Some(CoercedPeriod(hs.sent))]
    /\ UnchangedApp
    /\ UNCHANGED <<cv, fx, rq>>

\* app.py:774-783
HsFetch ==
    /\ hs.stage = "valid"
    /\ LET r == get_historical_data(hs.from, hs.to, hs.period[1], hs.provider, now)
       IN hs' = [hs EXCEPT !.stage = "answered",
                           !.answer =
                              IF r.kind = "value"
                              THEN Some([status |-> 200,
                                         body |-> [from |-> hs.from, to |-> hs.to,
                                                   period |-> hs.period[1], data |-> r.val]])
                              ELSE Some([status |-> 500,
                                         body |-> "Failed to fetch historical data"])]
    /\ UnchangedApp
    /\ UNCHANGED <<cv, fx, rq>>

HistoryNext == HsValidate \/ HsFetch
SpecHistory == HistoryInit /\ [][HistoryNext]_vars

\* Scheduling of the application: every thread that can take a step
\* eventually takes one, and a thread waiting for the lock gets it if the
\* lock is free again and again (critical sections end: the providers are
\* called with timeouts, rates.py:61, 150).
Fairness ==
    /\ \A p \in Procs : WF_vars(ThreadStep(p))
    /\ \A p \in Threads : SF_vars(WorkerLock(p))
SpecFair == Init /\ [][Next]_vars /\ Fairness

\* The same, and a request handler waiting for the lock gets it as well if it
\* is free again and again: threading.Lock wakes one of the threads blocked
\* in acquire at each release, and the threads are finitely many.
LockFairness ==
    \A p \in Threads : SF_vars(EnsureLock(p)) /\ SF_vars(ConvertLock(p))
SpecLive == Init /\ [][Next]_vars /\ Fairness /\ LockFairness

(***************************************************************************)
(* Properties of get_rates (checked under SpecLib)                         *)
(***************************************************************************)
Completed(l) == l.kind # "none"
FreshAtCheck(l) ==
    /\ l.uc
    /\ l.cached # None
    /\ l.tcheck - l.cached[1].timestamp < CACHE_TTL_SECONDS
Fetches(l) == IF l.tried = <<>> THEN 0 ELSE 1

\* C1: a call of get_rates returns the persisted record without a network
\* call if and only if use_cache is true and the record it loaded is younger
\* than 3600 seconds; in every other case the primary provider is contacted
\* first, before anything is returned.
C1_CacheHitIffFresh ==
    Completed(call) =>
        /\ (call.kind = "hit") <=> FreshAtCheck(call)
        /\ call.kind = "hit" =>
              /\ call.tried = <<>>
              /\ call.val = call.cached
              /\ call.val = load_cached_rates(cache_file)
        /\ call.kind # "hit" => (call.tried # <<>> /\ call.tried[1] = "yahoo")

\* a hit on a record one second short of the TTL
C1_Witness ==
    /\ call.kind = "hit"
    /\ call.tcheck - call.cached[1].timestamp = CACHE_TTL_SECONDS - 1

\* the two calls are consecutive get_rates(use_cache=True) within one TTL window
TwoCachedCalls ==
    /\ prev # None
    /\ Completed(call)
    /\ prev[1].uc /\ call.uc
    /\ call.tcheck - prev[1].tcheck < CACHE_TTL_SECONDS

\* C2 as stated: of two consecutive get_rates(use_cache=True) calls within the
\* TTL window the second is a pure cache hit and at most one fetch is made.
C2_SecondCallIsHit ==
    TwoCachedCalls =>
        /\ call.kind = "hit"
        /\ Fetches(prev[1]) + Fetches(call) <= 1

\* C2 amended: when the first call fetched and its record was written to
\* the cache file, the second call is a pure hit on that record (one fetch in
\* total); when the first call was itself a hit, the two calls make at most
\* one fetch.
C2_SecondCallIsHitAfterSave ==
    TwoCachedCalls =>
        /\ (prev[1].kind = "fetched" /\ prev[1].wrote = "ok") =>
              /\ call.kind = "hit"
              /\ call.tried = <<>>
              /\ call.val = load_cached_rates(Stored(payload(prev[1].val[1])))
              /\ Fetches(prev[1]) + Fetches(call) = 1
        /\ prev[1].kind = "hit" => Fetches(prev[1]) + Fetches(call) <= 1

\* the first call fetched and saved, the second hit
C2_Witness ==
    /\ TwoCachedCalls
    /\ prev[1].kind = "fetched" /\ prev[1].wrote = "ok"
    /\ call.kind = "hit"

\* C3: a call that finds the cached record expired attempts a fetch, and when
\* every provider fails it returns that stale record instead of raising.
C3_StaleFallback ==
    (Completed(call) /\ call.uc /\ call.cached # None /\ ~FreshAtCheck(call)) =>
        /\ call.tried # <<>>
        /\ call.won = 0 =>
              /\ call.tried = Providers
              /\ call.kind = "stale"
              /\ call.val = call.cached

\* an expired record returned after all three providers failed
C3_Witness ==
    /\ call.kind = "stale"
    /\ call.uc /\ call.cached # None
    /\ call.tcheck - call.cached[1].timestamp >= CACHE_TTL_SECONDS
    /\ call.tried = Providers

\* C4: get_rates raises exactly when every provider of the chain failed and
\* no record can be loaded from the cache file; otherwise it returns a
\* snapshot.
C4_RaisesIffNothing ==
    Completed(call) =>
        /\ (call.kind = "raised") <=>
              /\ call.tried = Providers
              /\ call.won = 0
              /\ load_cached_rates(cache_file) = None
        /\ call.kind # "raised" => call.val # None
        /\ call.kind = "raised" => call.val = None

\* a call that raised
C4_Witness ==
    /\ call.kind = "raised"
    /\ call.tried = Providers

\* C19: within one fetch the providers are asked in the order primary,
\* fallback 1, fallback 2; one is asked only after all the earlier ones have
\* failed; the first valid response is the snapshot returned and no provider
\* is asked after it.
C19_ProviderOrder ==
    call.tried # <<>> =>
        LET k == Len(call.tried)
            a == call.answers[1]
        IN /\ call.tried = SubSeq(Providers, 1, k)
           /\ \A n \in 1..(k - 1) : ~a[n]
           /\ IF call.won # 0
              THEN /\ k = call.won /\ a[k]
                   /\ Completed(call) =>
                         (call.kind = "fetched" /\ call.val[1].base = ProviderBase(call.won))
              ELSE k = Len(Providers) /\ \A n \in 1..k : ~a[n]

\* the first fallback answered after the primary failed, and the second
\* fallback, which would have answered too, was not asked
C19_Witness ==
    /\ Completed(call)
    /\ call.tried = <<"yahoo", "ecb">> /\ call.won = 2
    /\ call.answers[1][3]
    /\ call.val[1].base = "EUR"

\* C20: when the fetch succeeded and the write of the cache file failed,
\* get_rates returns the fetched snapshot and raises nothing.
C20_SaveFailureSwallowed ==
    (Completed(call) /\ call.won # 0 /\ call.wrote \in {"failed", "truncated"}) =>
        /\ call.kind = "fetched"
        /\ call.val # None
        /\ call.val[1].base = ProviderBase(call.won)
        /\ call.val[1].timestamp <= now

\* a fetched snapshot returned though the write failed and left no cache file
C20_Witness ==
    /\ Completed(call) /\ call.kind = "fetched"
    /\ call.wrote = "failed"
    /\ cache_file = Missing

\* C30: the cache file changes only at the save that follows a fetch in
\* which a provider answered; the save is reached in no other way; and a
\* call that ended with a cache hit, a stale fallback or an exception, or in
\* which every provider failed, has written nothing.
C30_WriteOnlyAfterFetch ==
    /\ [][cache_file' # cache_file =>
             (pc[Caller] = "gr_save" /\ call.won # 0 /\ call'.wrote # "none")]_vars
    /\ [](pc[Caller] = "gr_save" => (call.won # 0 /\ gr[Caller].latest # None))
    /\ [](Completed(call) =>
             /\ call.kind \in {"hit", "stale", "raised"} =>
                    (call.wrote = "none" /\ \A i \in DOMAIN call.io : call.io[i] # "save")
             /\ (call.tried = Providers /\ call.won = 0) => call.wrote = "none")

\* every provider has failed and the call has returned the record of the
\* cache file, which is still there
C30_Witness ==
    /\ Completed(call) /\ call.kind = "stale"
    /\ call.tried = Providers /\ call.won = 0
    /\ call.wrote = "none"
    /\ cache_file.state = "ok"

\* C31: within one call of get_rates no provider is contacted twice: the
\* providers contacted are pairwise different, and the chain is run at most
\* once, whatever fails.
C31_ProviderTriedOnce ==
    /\ \A i \in DOMAIN call.tried, j \in DOMAIN call.tried :
          call.tried[i] = call.tried[j] => i = j
    /\ Cardinality({i \in DOMAIN call.io : call.io[i] = "fetch"}) <= 1

\* the cache file gave nothing, the three providers failed one after the
\* other, the cache file gave nothing again and the call raised
C31_Witness ==
    /\ Completed(call) /\ call.kind = "raised"
    /\ call.tried = Providers
    /\ call.io = <<"load", "fetch", "load">>

(***************************************************************************)
(* Properties of the application (checked under Spec and SpecFair)         *)
(***************************************************************************)
\* C5 as stated: a refresh whose providers all fail leaves the snapshot the
\* slot holds as it was: the step by which its worker ends does not change
\* _rates.
C5_FailedRefreshKeepsSlot ==
    [][\A p \in Threads :
          (/\ role[p] = "worker" /\ gr[p].kind = "stale" /\ role'[p] # "worker"
           /\ _rates # None)
              => _rates' = _rates]_vars

\* C6 as stated: the timestamp of the snapshot in the slot never decreases.
C6_SlotTimestampMonotone ==
    [][(_rates # None /\ _rates' # None)
          => _rates'[1].timestamp >= _rates[1].timestamp]_vars

\* C7 as stated: every access to the slot is made while holding the lock.
C7_EveryAccessLocked ==
    acc # None => acc[1].locked

\* C7 amended: every write of the slot and the read that serves a conversion
\* are made while holding the lock; the only access without it is the
\* emptiness pre-check of the convert handler (app.py:720).
C7_AccessLockedButPrecheck ==
    acc # None =>
        \/ acc[1].locked
        \/ (acc[1].site = "convert:720" /\ acc[1].op = "read")

\* the refresh worker writes the slot, holding the lock
C7_Witness ==
    /\ acc # None
    /\ acc[1].site = "refresh:752" /\ acc[1].op = "write"
    /\ acc[1].locked

\* The snapshots a fetch can yield.
Snapshots ==
    {Rates(b, t, ts) : b \in {"USD", "EUR"}, t \in {"dec17", "dec28"},
                       ts \in StartTime..MaxNow}

\* C8: when the fetch of a refresh worker has succeeded, the slot is
\* eventually assigned the snapshot it fetched (under fair scheduling).
C8_FetchedIsAssigned ==
    \A v \in Snapshots :
        (\E p \in Threads : role[p] = "worker" /\ pc[p] = "gr_save" /\ gr[p].latest = Some(v))
            ~> (_rates = Some(v) /\ acc # None /\ acc[1].site = "refresh:752")

\* a refresh worker has assigned a snapshot to the slot while the cache file
\* was never written: the snapshot is the one the worker fetched
C8_Witness ==
    /\ acc # None /\ acc[1].site = "refresh:752"
    /\ _rates # None
    /\ cache_file = Missing

\* C9: the handler of POST /api/refresh answers 200 "refreshing" whatever
\* its worker does: every answer to a refresh is that one, and the handler
\* can answer in every state in which it has started the worker.
C9_RefreshAlwaysRefreshing ==
    /\ (http # None /\ http[1].to = "refresh") =>
           (http[1].status = 200 /\ http[1].body = "refreshing")
    /\ \A p \in Threads : pc[p] = "rf_return" => ENABLED RefreshRespond(p)

\* the answer is sent while a refresh worker is still fetching
C9_Witness ==
    /\ http # None /\ http[1].to = "refresh"
    /\ \E w \in Threads : role[w] = "worker" /\ pc[w] \in GetRatesPcs

\* C10 as stated: no convert handler ever runs get_rates.
C10_NoIOInConvert ==
    \A p \in Procs : role[p] = "convert" => pc[p] \notin GetRatesPcs

\* C10 amended: get_rates runs in the preload worker, in a refresh worker,
\* and in a convert handler only when its pre-check found the slot empty; the
\* slot is then still empty and the handler holds the lock.
C10_IOInConvertOnlyWhenEmpty ==
    \A p \in Procs :
        pc[p] \in GetRatesPcs =>
            \/ role[p] \in {"preload", "worker", "caller"}
            \/ /\ role[p] = "convert"
               /\ saw_none[p]
               /\ _rates = None
               /\ _rates_lock = Some(p)

\* a convert handler fetches inside the request
C10_Witness ==
    \E p \in Threads : role[p] = "convert" /\ pc[p] = "gr_fetch" /\ saw_none[p]

\* C11 as stated: GET /api/convert answers 400 (amount missing or invalid,
\* conversion error), 503 (no rates obtainable) or 200 with the result.
C11_ConvertAnswers ==
    (http # None /\ http[1].to = "convert") => http[1].status \in {200, 400, 503}

(***************************************************************************)
(* Properties of Rates.convert (checked under SpecConvert)                 *)
(***************************************************************************)
Converted == cv.out # None
RateIn(S, c) == S.rates[c]
\* c resolves in S with a rate above zero (the base stands for 1)
Positive(S, c) == c = S.base \/ (RateIn(S, c) # None /\ RateIn(S, c)[1].n > 0)
\* the rate of c is stored and is zero or below
NonPositive(S, c) == c # S.base /\ RateIn(S, c) # None /\ RateIn(S, c)[1].n <= 0

\* C12: convert(x, a, a) returns x itself and raises nothing, whether a has an
\* entry in rates, has none, or is the base.
C12_SameCurrencyExact ==
    (Converted /\ cv.src = cv.dst) => cv.out[1] = Value(cv.amount[1])

\* the same code on both sides, not the base and without an entry
C12_Witness ==
    /\ Converted /\ cv.src = cv.dst
    /\ cv.src # cv.S[1].base /\ RateIn(cv.S[1], cv.src) = None
    /\ cv.out[1] = Value(cv.amount[1])

\* C13: for a and b that both resolve with a rate above zero, converting x
\* from a to b and back gives x within a relative error of 1e-12.
C13_RoundTrip ==
    (/\ cv.back # None
     /\ Positive(cv.S[1], cv.src) /\ Positive(cv.S[1], cv.dst)) =>
        /\ cv.back[1].kind = "value"
        /\ Within(cv.back[1].val, cv.amount[1], 12)

\* a round trip between two non-base codes whose intermediate results were
\* rounded
C13_Witness ==
    /\ cv.back # None /\ cv.back[1].kind = "value"
    /\ Positive(cv.S[1], cv.src) /\ Positive(cv.S[1], cv.dst)
    /\ cv.src # cv.dst
    /\ cv.back[1].val.rnd > 0
    /\ cv.amount[1].n # 0

\* C14: for src # dst the error names the side that failed: the source when
\* src is not the base and has no entry (whatever dst is), the destination
\* when src resolves and dst is not the base and has no entry.
C14_ErrorNamesSide ==
    (Converted /\ cv.src # cv.dst) =>
        /\ (cv.src # cv.S[1].base /\ RateIn(cv.S[1], cv.src) = None) =>
               cv.out[1] = [kind |-> "error", side |-> "source", code |-> cv.src]
        /\ (/\ Positive(cv.S[1], cv.src)
            /\ cv.dst # cv.S[1].base /\ RateIn(cv.S[1], cv.dst) = None) =>
               cv.out[1] = [kind |-> "error", side |-> "destination", code |-> cv.dst]

\* the source resolves and the destination is unknown
C14_Witness ==
    /\ Converted /\ cv.src # cv.dst
    /\ cv.src # cv.S[1].base /\ Positive(cv.S[1], cv.src)
    /\ RateIn(cv.S[1], cv.dst) = None
    /\ cv.out[1].kind = "error" /\ cv.out[1].side = "destination"

\* The snapshot S without its entry for c.
Without(S, c) == [S EXCEPT !.rates = [@ EXCEPT ![c] = None]]

\* C15: a stored rate of exactly 0 for a destination that is not the base
\* makes convert fail for the destination, exactly as if the code had no
\* entry; no Decimal operation is made on the zero.
C15_ZeroRateIsUnknown ==
    (/\ Converted /\ cv.src # cv.dst
     /\ Positive(cv.S[1], cv.src)
     /\ cv.dst # cv.S[1].base
     /\ RateIn(cv.S[1], cv.dst) # None /\ IsZero(RateIn(cv.S[1], cv.dst)[1])) =>
        /\ cv.out[1] = Failure("destination", cv.dst)
        /\ cv.out[1] = convert(Without(cv.S[1], cv.dst), cv.amount[1], cv.src, cv.dst)

\* the source is the base and the destination has rate 0
C15_Witness ==
    /\ Converted /\ cv.src = cv.S[1].base /\ cv.dst # cv.src
    /\ RateIn(cv.S[1], cv.dst) # None /\ IsZero(RateIn(cv.S[1], cv.dst)[1])
    /\ cv.out[1] = Failure("destination", cv.dst)

\* C16 as stated: for src # dst, convert fails whenever the rate looked up
\* for a non-base source or a non-base destination is zero or below.
C16_NonPositiveRateFails ==
    (/\ Converted /\ cv.src # cv.dst
     /\ (NonPositive(cv.S[1], cv.src) \/ NonPositive(cv.S[1], cv.dst))) =>
        cv.out[1].kind = "error"

\* The rate convert is to use for c: 1 for the base, else the entry.
EffectiveRate(S, c) == IF c = S.base THEN Dec(1, 1) ELSE RateIn(S, c)[1]

\* C17: for src # dst with both sides resolving, convert returns
\* (amount / r(src)) * r(dst), r being 1 for the base whatever entry rates
\* holds for it.
C17_ConvertFormula ==
    (/\ Converted /\ cv.src # cv.dst
     /\ Positive(cv.S[1], cv.src) /\ Positive(cv.S[1], cv.dst)) =>
        LET x == cv.amount[1]
            rs == EffectiveRate(cv.S[1], cv.src)
            rd == EffectiveRate(cv.S[1], cv.dst)
        IN /\ cv.out[1].kind = "value"
           /\ cv.out[1].val.n * (x.d * rs.n * rd.d) = (x.n * rs.d * rd.n) * cv.out[1].val.d
           /\ cv.out[1].val.rnd <= 2

\* base EUR with an entry of its own, USD at 1.2: 10 EUR gave 12 USD, and
\* 12 USD gave 10 EUR back
C17_Witness ==
    /\ cv.back # None
    /\ cv.S[1].base = "EUR"
    /\ RateIn(cv.S[1], "EUR") = Some(Dec(3, 1))
    /\ RateIn(cv.S[1], "USD") = Some(Dec(6, 5))
    /\ cv.src = "EUR" /\ cv.dst = "USD"
    /\ cv.amount[1] = Dec(10, 1)
    /\ cv.out[1] = Value(Dec(12, 1))
    /\ cv.back[1] = Value(Dec(10, 1))

(***************************************************************************)
(* Properties of the rate tables (checked under SpecFetch)                 *)
(***************************************************************************)
\* C18 as stated: every snapshot built from the primary provider, from a
\* fallback provider or from the cache file holds only rates above zero.
C18_RatesPositive ==
    fx.table # None =>
        \A c \in DOMAIN fx.table[1] : fx.table[1][c] # None => fx.table[1][c][1].n > 0

\* The cache file is a record that save_cached_rates wrote.
SavedRecord(f) == f.state = "ok"

\* C35: a first load that finds no saved record (the file is missing, cannot
\* be read or is malformed) yields no record and get_rates goes on to the
\* fetch; and get_rates raises only after a fetch in which every provider
\* failed.
C35_BadCacheIsColdStart ==
    /\ [][(pc[Caller] = "gr_load" /\ pc'[Caller] # "gr_load" /\ ~SavedRecord(cache_file)) =>
             (call'.cached = None /\ pc'[Caller] = "gr_fetch")]_vars
    /\ []((Completed(call) /\ call.kind = "raised") =>
             (call.won = 0 /\ call.tried = Providers))

\* C32: at the end of the Yahoo loop a table of fewer than 5 entries, USD
\* counted, makes the primary provider fail, and the next provider asked is
\* fallback 1; a table of 5 entries or more is returned as it is, with base
\* USD and the rate 1 for USD.
C32_SparsePrimaryFails ==
    /\ [][(fx.from = "none" /\ fx.next > Len(priority_currencies) /\ fx' # fx) =>
             IF Entries(fx.table[1]) < 5
             THEN fx'.from = "yahoo_failed" /\ fx'.table = None
             ELSE /\ fx'.from = "yahoo" /\ fx'.base = Some("USD")
                  /\ fx'.table = fx.table
                  /\ fx'.table[1]["USD"] = Some(Dec(1, 1))]_vars
    /\ [][(fx.from = "yahoo_failed" /\ fx' # fx) => fx'.from \in {"ecb", "ecb_failed"}]_vars
    /\ [](fx.from = "yahoo_failed" => ENABLED FxEcb(None))

\* Yahoo gave four entries, USD counted, and the primary provider has failed
C32_Witness ==
    /\ fx.from = "yahoo_failed"
    /\ fx.got = Some(4)

\* A quote that is no rate (the pair fetch failed, or gave zero or less), and
\* one that is a rate.
NoRate(q) == q = None \/ (q # Some(NaN) /\ q[1].n <= 0)
ARate(q) == q # None /\ q # Some(NaN) /\ q[1].n > 0

\* C33: in a turn of the Yahoo loop the reverse pair is requested exactly
\* when the direct pair gave no rate; a direct rate is stored as it is; the
\* reciprocal of a reverse rate is stored; and when neither pair gave a rate
\* the currency gets no entry and the loop goes on.  (A quote of NaN is none
\* of these cases: the comparison of rates.py:120 or 125 raises and the
\* primary provider fails.)
C33_InverseWhenDirectFails ==
    fx.last # None =>
        LET l == fx.last[1]
            entry == fx.table[1][l.code]
        IN /\ l.reverse_asked <=> NoRate(l.direct)
           /\ ARate(l.direct) => (fx.from = "none" /\ entry = l.direct)
           /\ (NoRate(l.direct) /\ ARate(l.reverse)) =>
                  /\ fx.from = "none" /\ entry # None
                  /\ entry[1].n * l.reverse[1].n = entry[1].d * l.reverse[1].d
           /\ (NoRate(l.direct) /\ NoRate(l.reverse)) =>
                  /\ fx.from = "none" /\ entry = None
                  /\ fx.next <= Len(priority_currencies) + 1
                  /\ priority_currencies[fx.next - 1] = l.code

\* neither pair of EUR gave a rate and EUR has no entry; the loop went on to
\* GBP, whose direct pair failed and whose reverse pair gave 2: GBP has 1/2
C33_Witness ==
    /\ fx.last # None /\ fx.last[1].code = "GBP"
    /\ fx.last[1].direct = None /\ fx.last[1].reverse = Some(Dec(2, 1))
    /\ fx.table[1]["GBP"] = Some(Dec(1, 2))
    /\ fx.table[1]["EUR"] = None

\* C34: a snapshot from fallback 1 comes from a response with a rates field
\* and base EUR, one from fallback 2 from a response with result success and
\* base_code EUR; both have base EUR, and a snapshot from the primary
\* provider has base USD.
C34_FallbackAnchor ==
    /\ fx.from = "ecb" =>
          /\ fx.resp # None /\ fx.resp[1].rates # None /\ fx.resp[1].base = Some("EUR")
          /\ fx.base = Some("EUR")
    /\ fx.from = "open_er" =>
          /\ fx.resp # None /\ fx.resp[1].result = Some("success")
          /\ fx.resp[1].base_code = Some("EUR")
          /\ fx.base = Some("EUR")
    /\ fx.from = "yahoo" => fx.base = Some("USD")

\* fallback 2 was accepted after the primary provider and fallback 1 failed
C34_Witness ==
    /\ fx.from = "open_er"
    /\ fx.base = Some("EUR")
    /\ fx.table[1]["USD"] = Some(Dec(2, 1))

(***************************************************************************)
(* Properties of one convert request (checked under SpecHandler)           *)
(***************************************************************************)
\* C21 as stated: whenever the amount string parses as a Decimal, the
\* handling of GET /api/convert ends with 200, 400 or 503 and no exception
\* leaves the handler.
C21_NoExceptionEscapes ==
    (rq.stage = "answered" /\ rq.amount # None) =>
        (rq.answer[1].status \in {200, 400, 503} /\ rq.answer[1].escaped = None)

\* The value a formatted text stands for is within half a unit of 10^-4 of
\* n/d, and exactly half a unit away only on the side away from zero.
IsHalfUpOf(text, q) ==
    /\ text.kind = "units" /\ text.places = 4
    /\ LET exact == q.n * 10000
           got == text.units * q.d
       IN /\ 2 * Abs(got - exact) <= q.d
          /\ 2 * Abs(got - exact) = q.d => Abs(got) > Abs(exact)

\* C23: format_decimal gives a value with exactly 4 fractional digits, the
\* nearest to its argument, a tie at the fifth digit going away from zero:
\* so for the amount and for the converted amount of every 200 answer.
C23_FormatRoundsHalfUp ==
    (/\ rq.stage = "answered" /\ rq.answer[1].status = 200
     /\ rq.amount[1].kind = "finite" /\ rq.amount[1].e = 0) =>
        /\ IsHalfUpOf(rq.answer[1].body.formatted_amount, rq.amount[1].q)
        /\ IsHalfUpOf(rq.answer[1].body.formatted_converted, rq.converted[1].q)

\* 1.23455 is formatted as 1.2346
C23_Witness ==
    /\ rq.stage = "answered" /\ rq.answer[1].status = 200
    /\ rq.amt_str = "1.23455"
    /\ rq.answer[1].body.formatted_amount = [kind |-> "units", units |-> 12346, places |-> 4]

(***************************************************************************)
(* Properties of one historical request (checked under SpecHistory)        *)
(***************************************************************************)
\* C22: GET /api/historical with both from and to present is answered 200,
\* and with no data when the provider call fails.
C22_HistoryNeverFails ==
    (hs.stage = "answered" /\ hs.from # "" /\ hs.to # "") =>
        /\ hs.answer[1].status = 200
        /\ (hs.provider.kind = "error" /\ hs.from # hs.to) => hs.answer[1].body.data = <<>>

\* the provider failed for a pair of different currencies
C22_Witness ==
    /\ hs.stage = "answered" /\ hs.provider.kind = "error"
    /\ hs.from = "USD" /\ hs.to = "EUR"
    /\ hs.answer[1].status = 200 /\ hs.answer[1].body.data = <<>>

(***************************************************************************)
(* Properties of the slot, the lock and the threads (checked under Spec,   *)
(* SpecReliable and SpecFair)                                              *)
(***************************************************************************)
Fetching(w) == role[w] = "worker" /\ pc[w] \in GetRatesPcs

\* C24: a refresh worker holds the lock exactly while it assigns the slot
\* (app.py:751-752), never while its get_rates runs, and the steps of its
\* get_rates leave the slot as it was: a convert request that takes the lock
\* meanwhile reads the snapshot the slot held before.
C24_FetchOutsideLock ==
    /\ [](\A w \in Threads :
             role[w] = "worker" => (_rates_lock = Some(w) <=> pc[w] = "rw_assign"))
    /\ [][\A w \in Threads :
             (Fetching(w) /\ pc'[w] # pc[w]) => _rates' = _rates]_vars

\* a convert request is answered from the slot while a refresh worker is
\* between its fetch and its save
C24_Witness ==
    /\ http # None /\ http[1].to = "convert" /\ http[1].status = 200
    /\ acc # None /\ acc[1].site = "convert:728"
    /\ _rates # None
    /\ \E w \in Threads : Fetching(w) /\ pc[w] = "gr_save"

\* No preload, load or refresh is in flight: the preload worker has ended and
\* every other thread is idle.
NothingInFlight ==
    /\ pc[Preload] = "done"
    /\ \A p \in Threads : role[p] = "idle"

\* C25 as stated: when nothing is in flight and no cache write has failed
\* (SpecReliable), a filled slot and the cache file hold the same snapshot:
\* same base, same timestamp.
C25_SlotMatchesFile ==
    (NothingInFlight /\ _rates # None) =>
        /\ cache_file.state = "ok"
        /\ cache_file.rec[1].base = _rates[1].base
        /\ cache_file.rec[1].timestamp = _rates[1].timestamp

ConvertAnswer(h, status) == h # None /\ h[1].to = "convert" /\ h[1].status = status

\* C26: the slot starts empty; no step empties a filled slot; and while the
\* slot is filled no convert request is answered 503, and none is ever
\* answered "Rates not loaded".
C26_SlotNeverEmptied ==
    /\ _rates = None
    /\ [][/\ _rates # None => _rates' # None
          /\ _rates # None => ~ConvertAnswer(http', 503)
          /\ ~(http' # None /\ http'[1].body = "Rates not loaded")]_vars

\* the slot is filled, the cache file is not readable, and a refresh whose
\* providers all failed is about to raise
C26_Witness ==
    /\ _rates # None
    /\ cache_file.state # "ok"
    /\ \E w \in Threads : role[w] = "worker" /\ pc[w] = "gr_fallback"

\* A thread runs the get_rates of _ensure_rates_loaded (app.py:73).
Loading(p) == role[p] \in {"convert", "preload"} /\ pc[p] \in GetRatesPcs

\* C27: at most one thread at a time runs the get_rates of
\* _ensure_rates_loaded; it runs only while the slot is empty; and the
\* assignment of app.py:73 is made only to an empty slot.
C27_OneInitialLoad ==
    /\ [](\A p \in Procs, q \in Procs : (Loading(p) /\ Loading(q)) => p = q)
    /\ [](\A p \in Procs : Loading(p) => _rates = None)
    /\ [][(acc' # None /\ acc'[1].site = "ensure:73") => _rates = None]_vars

\* a convert request that had found the slot empty finds it filled by another
\* thread once it holds the lock, and goes on without calling get_rates
C27_Witness ==
    /\ acc # None /\ acc[1].site = "ensure:72"
    /\ _rates # None
    /\ \E p \in Threads : role[p] = "convert" /\ pc[p] = "cv_lock"

\* The places where a thread is inside a with _rates_lock block (app.py:71-73,
\* 727-731, 751-752), and those where it is about to enter one.
InsideWith(p) ==
    \/ pc[p] \in {"en_check", "cv_body", "rw_assign"}
    \/ Loading(p)
AtWith(p) == pc[p] \in {"en_lock", "cv_lock", "rw_lock"}

\* C28: a thread holds the lock exactly while it is inside a with block, so
\* it has released it when it leaves the block, by a return or by an
\* exception, and it does not hold it when it enters one; and every convert
\* request is eventually answered (under fair scheduling and fair locking).
C28_LockReleasedConvertAnswered ==
    /\ [](\A p \in Procs : _rates_lock = Some(p) <=> InsideWith(p))
    /\ [](\A p \in Procs : AtWith(p) => _rates_lock # Some(p))
    /\ \A p \in Threads :
          (role[p] = "convert") ~>
              (role[p] = "idle" /\ http # None /\ http[1].to = "convert")

\* get_rates has raised inside _ensure_rates_loaded, called by a convert
\* handler: the handler answers 503 and the lock is free
C28_Witness ==
    /\ ConvertAnswer(http, 503)
    /\ _rates_lock = None

\* The step by which thread p leaves get_rates with an exception: every
\* provider has failed and no cache record can be loaded (rates.py:229-233).
GetRatesRaises(p) ==
    /\ pc[p] = "gr_fallback" /\ pc'[p] # pc[p]
    /\ load_cached_rates(cache_file) = None

\* C29: a preload that fails leaves the slot empty; a convert request with a
\* valid amount that finds the slot empty calls _ensure_rates_loaded, which
\* calls get_rates if the slot is still empty; the request is answered 503
\* only by the step at which that get_rates raises; and when that get_rates
\* returns, the slot holds what it returned and the handler goes on to
\* convert, reading a filled slot.
C29_FailedPreloadRetried ==
    /\ [][/\ (role[Preload] = "preload" /\ GetRatesRaises(Preload)) => _rates' = None
          /\ \A p \in Threads :
                /\ (pc[p] = "cv_precheck" /\ _rates = None /\ pc'[p] # pc[p])
                       => pc'[p] = "en_lock"
                /\ (role[p] = "convert" /\ pc[p] = "en_check" /\ _rates = None
                       /\ pc'[p] # pc[p]) => pc'[p] = "gr_load"
                /\ (Loading(p) /\ pc'[p] \notin GetRatesPcs /\ ~GetRatesRaises(p))
                       => (_rates' # None /\ pc'[p] = "cv_lock")
          /\ ConvertAnswer(http', 503) =>
                \E p \in Threads : role[p] = "convert" /\ GetRatesRaises(p)
                                   /\ role'[p] = "idle"]_vars
    /\ [](\A p \in Threads : pc[p] \in {"cv_lock", "cv_body"} => _rates # None)

\* the preload has failed and the retry of a convert request has just filled
\* the slot
C29_Witness ==
    /\ pc[Preload] = "done"
    /\ acc # None /\ acc[1].site = "ensure:73"
    /\ _rates # None
    /\ \E p \in Threads : role[p] = "convert" /\ pc[p] = "cv_lock"

=============================================================================
